---- MODULE Spec2Model ----
(***************************************************************************)
(* Batched beam search of eight_mile.tf.layers (BeamSearchBase.__call__)   *)
(* as a state machine.  One search invocation is modelled: the driver      *)
(* loop, the calls to the step oracle, the score combination with the      *)
(* masking of finished beams, top-k selection, gathering, the length       *)
(* update, the loop exit test and the forced finalization.                 *)
(*                                                                         *)
(* float32 values are modelled by integers (sums of small integers are     *)
(* exact in float32) with rounding above 2^24 and two special values,      *)
(* NegInf and NaN.                                                         *)
(***************************************************************************)
EXTENDS Integers, Sequences, FiniteSets, TLC

VARIABLES bsz, K, V, mxlen,      \* shape of the invocation
          pc, i,                 \* position in __call__, loop index
          paths, log_probs, lengths, best_scores,
          probs,                 \* last output of self.step, [B][K][V]
          best_beams,            \* origins of the last selection, [B][K]
          exit,                  \* how the loop was left
          g_paths, g_lengths,    \* reference greedy decoder (K = 1)
          penalty,               \* the length penalty the search was built with
          flat_beams,            \* argument of the last self.update, [B * K]
          acc,                   \* sum of the oracle's log-probs along each path
          live,                  \* the runs that have not left the loop by break
          calls                  \* the calls of the oracle's methods, in order

vars == <<bsz, K, V, mxlen, pc, i, paths, log_probs, lengths, best_scores,
          probs, best_beams, exit, g_paths, g_lengths, penalty, flat_beams,
          acc, live, calls>>

----------------------------------------------------------------------------
(* Bounds of the model *)

\* B * K <= MaxBeams
MaxBeams == 2
\* 1 <= mxlen <= MaxLen
MaxLen == 3
\* the oracle's finite log-probabilities are 0, -1, .., -MaxCost
MaxCost == 2
\* 3 <= V <= MaxV
MaxV == 3

----------------------------------------------------------------------------
(* Special vocabulary ids *)

GO == 1
EOS == 2

(* float32 *)

NegInf == -1073741824
NaN == 1073741824
\* the value finished beams' non-EOS candidates are filled with (-1e8)
MASK_VALUE == -100000000
\* integers up to 2^24 are exact in float32
F32_EXACT == 16777216

IsNaN(x) == x = NaN
IsFinite(x) == x # NaN /\ x # NegInf

RECURSIVE Ulp(_)
Ulp(a) == IF a < F32_EXACT THEN 1 ELSE 2 * Ulp(a \div 2)

RoundEven(a, u) ==
    LET q == a \div u
        r == a % u
    IN  IF 2 * r < u THEN q * u
        ELSE IF 2 * r > u THEN (q + 1) * u
        ELSE IF q % 2 = 0 THEN q * u ELSE (q + 1) * u

\* round a finite value to the nearest float32
F32(x) == IF x < 0 THEN 0 - RoundEven(0 - x, Ulp(0 - x)) ELSE RoundEven(x, Ulp(x))

FAdd(a, b) ==
    IF IsNaN(a) \/ IsNaN(b) THEN NaN
    ELSE IF a = NegInf \/ b = NegInf THEN NegInf
    ELSE F32(a + b)

\* a * m for m in {0, 1}: -inf * 0 and NaN * 0 are NaN
FMul(a, m) ==
    IF IsNaN(a) THEN NaN
    ELSE IF a = NegInf THEN (IF m = 0 THEN NaN ELSE NegInf)
    ELSE a * m

\* a < b on float32: every comparison with NaN is false
FLess(a, b) == ~IsNaN(a) /\ ~IsNaN(b) /\ a < b

masked_fill(t, mask, value) ==
    LET m == IF mask THEN 1 ELSE 0
    IN  FAdd(FMul(t, 1 - m), FMul(value, m))

\* no_length_penalty: the penalty of every length is 1
no_length_penalty(len) == 1

\* a penalty that depends on the length: the length itself (the score is the
\* log-prob per token)
per_token_penalty(len) == len

\* a penalty whose value for the length 1 is not 1
shifted_penalty(len) == len + 1

\* self.length_penalty
length_penalty(len) ==
    IF penalty = "none" THEN no_length_penalty(len)
    ELSE IF penalty = "per_token" THEN per_token_penalty(len)
    ELSE shifted_penalty(len)

RECURSIVE Gcd(_, _)
Gcd(a, b) == IF b = 0 THEN a ELSE Gcd(b, a % b)

RECURSIVE LcmUpTo(_)
LcmUpTo(n) == IF n <= 1 THEN 1 ELSE (LcmUpTo(n - 1) * n) \div Gcd(LcmUpTo(n - 1), n)

\* scores are kept as multiples of 1 / ScoreUnit, so that every quotient
\* log_prob / penalty of the search is a whole number of units
ScoreUnit ==
    IF penalty = "none" THEN 1
    ELSE IF penalty = "per_token" THEN LcmUpTo(mxlen)
    ELSE LcmUpTo(mxlen + 1)

\* a log-prob as a score
ToScore(x) == IF IsFinite(x) THEN x * ScoreUnit ELSE x

\* x / penalty
FDiv(x, p) ==
    IF p = 0 THEN (IF IsNaN(x) \/ x = 0 THEN NaN ELSE NegInf)
    ELSE IF IsFinite(x) THEN (x * ScoreUnit) \div p ELSE x

\* mutant: every END sets the length, also of a beam that has one
update_lengths_NoGuard(len, eos, idx) == masked_fill(len, eos, idx)

\* update_lengths writing the index after the one it was given
update_lengths_OffByOne(len, eos, idx) ==
    masked_fill(len, len = 0 /\ eos, idx + 1)

update_lengths(len, eos, idx) ==
    LET updatable_lengths == len = 0
        lengths_mask == updatable_lengths /\ eos
    IN  masked_fill(len, lengths_mask, idx)

----------------------------------------------------------------------------
Rows == 0 .. bsz - 1
Slots == 0 .. K - 1
Vocab == 0 .. V - 1

Last(s) == s[Len(s)]

LogProbVals == {0 - c : c \in 0 .. MaxCost}

Shapes == {s \in [B : 1 .. MaxBeams, K : 1 .. MaxBeams, V : 3 .. MaxV] :
              s.B * s.K <= MaxBeams}

----------------------------------------------------------------------------
(* tf.math.top_k over one row of flat scores *)

\* equal scores ordered with the higher index first
Before_HighIndexFirst(flat, a, b) ==
    FLess(flat[b], flat[a]) \/ (flat[a] = flat[b] /\ a > b)

\* index a comes before index b: higher score first, equal scores by index
Before(flat, a, b) == FLess(flat[b], flat[a]) \/ (flat[a] = flat[b] /\ a < b)

RECURSIVE TopKSeq(_, _, _)
TopKSeq(flat, cand, k) ==
    IF k = 0 THEN << >>
    ELSE LET best == CHOOSE a \in cand : \A b \in cand \ {a} : Before(flat, a, b)
         IN  <<best>> \o TopKSeq(flat, cand \ {best}, k - 1)

InjSeqs(S, k) == {s \in [1 .. k -> S] : \A a, b \in 1 .. k : a # b => s[a] # s[b]}

\* top_k returning its elements lowest score first
top_k_Ascending(flat, k) ==
    {[n \in 1 .. k |-> TopKSeq(flat, DOMAIN flat, k)[k + 1 - n]]}

\* top_k returning one element more than it was asked for
top_k_OneMore(flat, k) == {TopKSeq(flat, DOMAIN flat, k + 1)}

\* the results top_k may give: with a NaN among the scores the order of the
\* elements is not defined
top_k(flat, k) ==
    IF \E f \in DOMAIN flat : IsNaN(flat[f])
    THEN InjSeqs(DOMAIN flat, k)
    ELSE {TopKSeq(flat, DOMAIN flat, k)}

\* one result per batch row
RowChoices(R) ==
    IF \A b \in DOMAIN R : Cardinality(R[b]) = 1
    THEN {[b \in DOMAIN R |-> CHOOSE s \in R[b] : TRUE]}
    ELSE {f \in [DOMAIN R -> UNION {R[b] : b \in DOMAIN R}] :
              \A b \in DOMAIN R : f[b] \in R[b]}

\* arg-max of one distribution, lowest index among equals
ArgMax(d) == CHOOSE a \in DOMAIN d : \A b \in DOMAIN d \ {a} : Before(d, a, b)

----------------------------------------------------------------------------
\* the loop with one iteration more than it has
LoopContinues_OneMore(n) == n < mxlen

\* for i in range(mxlen - 1): the loop has an iteration n
LoopContinues(n) == n < mxlen - 1

\* the state before the loop, for the rows R
InitRun(R) ==
    /\ i = 0
    /\ pc = IF LoopContinues(0) THEN "step" ELSE "final_step"
    /\ calls = <<"init">>
    /\ paths = [b \in R |-> [k \in Slots |-> <<GO>>]]
    /\ log_probs = [b \in R |-> [k \in Slots |-> 0]]
    /\ lengths = [b \in R |-> [k \in Slots |-> 0]]
    /\ best_scores = [b \in R |-> [k \in Slots |-> 0]]
    /\ probs = << >>
    /\ best_beams = [b \in R |-> [k \in Slots |-> k]]
    /\ exit = "none"
    /\ g_paths = [b \in R |-> << >>]
    /\ g_lengths = [b \in R |-> 0]
    /\ flat_beams = << >>
    /\ acc = [b \in R |-> [k \in Slots |-> 0]]

Init ==
    /\ \E s \in Shapes : bsz = s.B /\ K = s.K /\ V = s.V
    /\ mxlen \in 1 .. MaxLen
    /\ penalty = "none"
    /\ live = {0}
    /\ InitRun(Rows)

\* what self.step may return: one distribution per hypothesis; the K
\* hypotheses of a row are identical before the first selection and so are
\* their distributions
StepOutputs(Vals) ==
    IF i = 0
    THEN {[b \in Rows |-> [k \in Slots |-> d[b]]] : d \in [Rows -> [Vocab -> Vals]]}
    ELSE [Rows -> [Slots -> [Vocab -> Vals]]]

\* probs, extra = self.step(paths, extra) in the loop
CallStep(Vals) ==
    /\ pc = "step"
    /\ probs' \in StepOutputs(Vals)
    /\ pc' = "select"
    /\ calls' = Append(calls, "step")
    /\ UNCHANGED <<bsz, K, V, mxlen, i, paths, log_probs, lengths, best_scores,
                   best_beams, exit, g_paths, g_lengths, penalty, flat_beams,
                   acc, live>>

\* mutant: the END candidate of a finished beam is left at the mask value
Combined_NoEosFill(b, k, v) ==
    IF i > 0
    THEN LET done_mask == lengths[b][k] # 0
             p1 == masked_fill(probs[b][k][v], done_mask, MASK_VALUE)
         IN  FAdd(log_probs[b][k], p1)
    ELSE probs[b][k][v]

\* mutant: the other tokens of a finished beam are not masked out
Combined_NoDoneMask(b, k, v) ==
    IF i > 0
    THEN LET done_mask == lengths[b][k] # 0
             mask == done_mask /\ v = EOS
             p2 == masked_fill(probs[b][k][v], mask, 0)
         IN  FAdd(log_probs[b][k], p2)
    ELSE probs[b][k][v]

\* the candidates of beam (b, k): probs after masking and adding log_probs
Combined(b, k, v) ==
    IF i > 0
    THEN LET done_mask == lengths[b][k] # 0
             eos_mask == v = EOS
             mask == done_mask /\ eos_mask
             p1 == masked_fill(probs[b][k][v], done_mask, MASK_VALUE)
             p2 == masked_fill(p1, mask, 0)
         IN  FAdd(log_probs[b][k], p2)
    ELSE probs[b][k][v]

valid_lengths(b, k) == masked_fill(lengths[b][k], lengths[b][k] = 0, i + 1)

\* mutant: the first step ranks the candidates of all K beams
FlatScores_AllBeams(b) ==
    [f \in 0 .. K * V - 1 |->
        IF i > 0
        THEN FDiv(Combined(b, f \div V, f % V), length_penalty(valid_lengths(b, f \div V)))
        ELSE ToScore(probs[b][f \div V][f % V])]

\* flat_scores of row b
FlatScores(b) ==
    IF i > 0
    THEN [f \in 0 .. K * V - 1 |->
              FDiv(Combined(b, f \div V, f % V), length_penalty(valid_lengths(b, f \div V)))]
    ELSE [f \in 0 .. V - 1 |-> ToScore(probs[b][0][f])]

\* the loop's exit test
AllDone(len) ==
    Cardinality({bk \in (DOMAIN len) \X Slots :
                    bk[2] \in DOMAIN len[bk[1]] /\ len[bk[1]][bk[2]] # 0}) = K

\* the reference greedy decoder follows the distribution of its own path
GreedyStep ==
    IF K = 1
    THEN /\ g_paths' = [b \in Rows |->
                IF g_lengths[b] = 0 THEN Append(g_paths[b], ArgMax(probs[b][0]))
                ELSE g_paths[b]]
         /\ g_lengths' = [b \in Rows |->
                IF g_lengths[b] = 0 /\ ArgMax(probs[b][0]) = EOS THEN i + 1
                ELSE g_lengths[b]]
    ELSE UNCHANGED <<g_paths, g_lengths>>

\* best_beams = best_idx // V and best_idx = best_idx % V
Origin(f) == f \div V

\* the token taken to be the quotient of the flat index
Token_Quotient(f) == f \div V

Token(f) == f % V

\* the slots that a selection of one row fills
SelSlots(sel) == 0 .. Len(sel) - 1

\* the index of a row's beam without the offset of the row
FlatIndex_NoOffset(b, o) == o

\* offsets = tf.range(bsz) * self.K: beam o of row b in the flattened arrays
FlatIndex(b, o) == b * K + o

\* flat_paths and flat_lengths: the B * K beams in one array
FlatPaths(n) == paths[n \div K][n % K]

FlatLengths(n) == lengths[n \div K][n % K]

\* the paths gathered from the origins, the selected tokens not appended
SelPaths_NoAppend(b, sel) ==
    [k \in SelSlots(sel) |-> FlatPaths(FlatIndex(b, Origin(sel[k + 1])))]

\* the selected tokens appended to the paths of the slots, not gathered
SelPaths_NoGather(b, sel) ==
    [k \in SelSlots(sel) |-> Append(paths[b][k], Token(sel[k + 1]))]

\* row b after the selection sel (the flat indices top_k returned for it):
\* the paths gathered from the origins with the selected tokens appended
SelPaths(b, sel) ==
    [k \in SelSlots(sel) |->
        Append(FlatPaths(FlatIndex(b, Origin(sel[k + 1]))), Token(sel[k + 1]))]

\* the lengths gathered from the origins, updated where END was appended
SelLengths(b, sel) ==
    [k \in SelSlots(sel) |->
        update_lengths(FlatLengths(FlatIndex(b, Origin(sel[k + 1]))),
                       Last(SelPaths(b, sel)[k]) = EOS, i + 1)]

\* gather_k: the log-probs of the selected candidates
SelLogProbs(b, sel) ==
    [k \in SelSlots(sel) |-> Combined(b, Origin(sel[k + 1]), Token(sel[k + 1]))]

SelScores(b, sel) == [k \in SelSlots(sel) |-> FlatScores(b)[sel[k + 1]]]

SelBeams(b, sel) == [k \in SelSlots(sel) |-> Origin(sel[k + 1])]

\* the oracle's log-prob of the selected token, 0 for an origin that was
\* finished, added to the sum of the origin
SelAcc(b, sel) ==
    [k \in SelSlots(sel) |->
        LET o == Origin(sel[k + 1])
        IN  IF i > 0 /\ lengths[b][o] # 0 THEN acc[b][o]
            ELSE FAdd(acc[b][o], probs[b][o][Token(sel[k + 1])])]

\* the origins as they are inside their rows
FlatBeams_Local(beams) ==
    [n \in 1 .. bsz * K |-> beams[(n - 1) \div K][(n - 1) % K]]

\* flat_beams: the origins as indices of the flattened B * K beams
FlatBeams(beams) ==
    [n \in 1 .. bsz * K |->
        FlatIndex((n - 1) \div K, beams[(n - 1) \div K][(n - 1) % K])]

\* one iteration of the loop after self.step has returned
Iterate ==
    /\ pc = "select"
    /\ IF i = 0 /\ K > V
       THEN \* top_k needs at least K columns
            /\ pc' = "error"
            /\ UNCHANGED <<i, paths, log_probs, lengths, best_scores, best_beams,
                           exit, g_paths, g_lengths, flat_beams, acc, live,
                           calls>>
       ELSE \E best_idx \in RowChoices([b \in Rows |-> top_k(FlatScores(b), K)]) :
            LET new_lengths == [b \in Rows |-> SelLengths(b, best_idx[b])]
            IN  /\ best_scores' = [b \in Rows |-> SelScores(b, best_idx[b])]
                /\ log_probs' = [b \in Rows |-> SelLogProbs(b, best_idx[b])]
                /\ best_beams' = [b \in Rows |-> SelBeams(b, best_idx[b])]
                /\ paths' = [b \in Rows |-> SelPaths(b, best_idx[b])]
                /\ lengths' = new_lengths
                /\ flat_beams' = FlatBeams([b \in Rows |-> SelBeams(b, best_idx[b])])
                /\ acc' = [b \in Rows |-> SelAcc(b, best_idx[b])]
                /\ calls' = Append(calls, "update")
                /\ GreedyStep
                /\ IF AllDone(new_lengths)
                   THEN /\ pc' = "return"
                        /\ exit' = "break"
                        /\ i' = i
                        /\ live' = live \ {0}
                   ELSE /\ i' = i + 1
                        /\ pc' = IF LoopContinues(i + 1) THEN "step" ELSE "final_step"
                        /\ exit' = exit
                        /\ live' = live
    /\ probs' = << >>
    /\ UNCHANGED <<bsz, K, V, mxlen, penalty>>

\* probs, extra = self.step(paths, extra) in the loop's else branch
CallFinalStep(Vals) ==
    /\ pc = "final_step"
    /\ probs' \in StepOutputs(Vals)
    /\ pc' = "finalize"
    /\ calls' = Append(calls, "step")
    /\ UNCHANGED <<bsz, K, V, mxlen, i, paths, log_probs, lengths, best_scores,
                   best_beams, exit, g_paths, g_lengths, penalty, flat_beams,
                   acc, live>>

\* the END log-prob masked out for the beams that are not finished
FinalEosProbs_MaskUnfinished(b, k) ==
    masked_fill(probs[b][k][EOS], lengths[b][k] = 0, 0)

\* the END log-prob of beam (b, k), masked out for a finished beam
FinalEosProbs(b, k) == masked_fill(probs[b][k][EOS], lengths[b][k] # 0, 0)

FinalLogProbs(b, k) == FAdd(log_probs[b][k], FinalEosProbs(b, k))

FinalLengths(b, k) == update_lengths(lengths[b][k], TRUE, mxlen)

\* the returned score without the division by the penalty
FinalScore_NoPenalty(lp, len) == ToScore(lp)

\* best_scores = log_probs / length_penalty(lengths)
FinalScore(lp, len) == FDiv(lp, length_penalty(len))

\* the loop's else branch after self.step has returned
Finalize ==
    /\ pc = "finalize"
    /\ log_probs' = [b \in Rows |-> [k \in Slots |-> FinalLogProbs(b, k)]]
    /\ paths' = [b \in Rows |-> [k \in Slots |-> Append(paths[b][k], EOS)]]
    /\ lengths' = [b \in Rows |-> [k \in Slots |-> FinalLengths(b, k)]]
    /\ best_scores' = [b \in Rows |-> [k \in Slots |->
           FinalScore(FinalLogProbs(b, k), FinalLengths(b, k))]]
    /\ best_beams' = [b \in Rows |-> [k \in Slots |-> k]]
    /\ acc' = [b \in Rows |-> [k \in Slots |->
           IF lengths[b][k] # 0 THEN acc[b][k]
           ELSE FAdd(acc[b][k], probs[b][k][EOS])]]
    /\ IF K = 1
       THEN /\ g_paths' = [b \in Rows |->
                  IF g_lengths[b] = 0 THEN Append(g_paths[b], EOS) ELSE g_paths[b]]
            /\ g_lengths' = [b \in Rows |->
                  IF g_lengths[b] = 0 THEN mxlen ELSE g_lengths[b]]
       ELSE UNCHANGED <<g_paths, g_lengths>>
    /\ pc' = "return"
    /\ exit' = "forced"
    /\ probs' = << >>
    /\ UNCHANGED <<bsz, K, V, mxlen, i, penalty, flat_beams, live, calls>>

\* slice off the GO token and return
Return ==
    /\ pc = "return"
    /\ paths' = [b \in Rows |-> [k \in Slots |-> Tail(paths[b][k])]]
    /\ pc' = "done"
    /\ UNCHANGED <<bsz, K, V, mxlen, i, log_probs, lengths, best_scores, probs,
                   best_beams, exit, g_paths, g_lengths, penalty, flat_beams,
                   acc, live, calls>>

Next ==
    \/ CallStep(LogProbVals)
    \/ Iterate
    \/ CallFinalStep(LogProbVals)
    \/ Finalize
    \/ Return

Spec == Init /\ [][Next]_vars

----------------------------------------------------------------------------
(* The oracle may also return minus infinity for a token *)

InfVals == {0, 0 - MaxCost, NegInf}

NextInf ==
    \/ CallStep(InfVals)
    \/ Iterate
    \/ CallFinalStep(InfVals)
    \/ Finalize
    \/ Return

SpecInf == Init /\ [][NextInf]_vars

----------------------------------------------------------------------------
(* The search is built with a length penalty that depends on the length *)

InitPen ==
    /\ \E s \in Shapes : bsz = s.B /\ K = s.K /\ V = s.V
    /\ mxlen \in 1 .. MaxLen
    /\ penalty = "per_token"
    /\ live = {0}
    /\ InitRun(Rows)

SpecPen == InitPen /\ [][Next]_vars

InitShift ==
    /\ \E s \in Shapes : bsz = s.B /\ K = s.K /\ V = s.V
    /\ mxlen \in 1 .. MaxLen
    /\ penalty = "shifted"
    /\ live = {0}
    /\ InitRun(Rows)

SpecShift == InitShift /\ [][Next]_vars

----------------------------------------------------------------------------
(* The caller may pass any mxlen: __init__ and __call__ check neither the   *)
(* beam width nor mxlen                                                     *)

InitCfg ==
    /\ \E s \in Shapes : bsz = s.B /\ K = s.K /\ V = s.V
    /\ mxlen \in (0 - 1) .. MaxLen
    /\ penalty = "none"
    /\ live = {0}
    /\ InitRun(Rows)

SpecCfg == InitCfg /\ [][Next]_vars

----------------------------------------------------------------------------
(* Two runs of the search side by side, on the same B, K, V, mxlen: rows    *)
(* 0 .. bsz - 1 are the batch of run 0, rows bsz .. 2 * bsz - 1 the batch   *)
(* of run 1. The oracle returns the same for the first row of both batches  *)
(* while that row has the same paths in both; its outputs for the other     *)
(* rows are free. A run that breaks keeps its result while the other run    *)
(* goes on                                                                  *)

Runs == {0, 1}

RunRows(r) == {r * bsz + b : b \in Rows}

AllRows == 0 .. 2 * bsz - 1

LiveRows == UNION {RunRows(r) : r \in live}

PairVals == {0, 0 - MaxCost}

PairShapes == {s \in Shapes : s.B >= 2 /\ s.K <= s.V}

InitPair ==
    /\ \E s \in PairShapes : bsz = s.B /\ K = s.K /\ V = s.V
    /\ mxlen \in 1 .. MaxLen
    /\ penalty = "none"
    /\ live = Runs
    /\ InitRun(AllRows)

\* what self.step may return in the two runs
PairOutputs(Vals) ==
    {p \in [AllRows -> [Slots -> [Vocab -> Vals]]] :
        /\ \A b \in AllRows \ LiveRows : \A k \in Slots : \A v \in Vocab : p[b][k][v] = 0
        /\ i = 0 => \A b \in AllRows : \A k \in Slots : p[b][k] = p[b][0]
        /\ (live = Runs /\ paths[0] = paths[bsz]) => p[0] = p[bsz]}

PairCallStep(Vals) ==
    /\ pc = "step"
    /\ probs' \in PairOutputs(Vals)
    /\ pc' = "select"
    /\ calls' = Append(calls, "step")
    /\ UNCHANGED <<bsz, K, V, mxlen, i, paths, log_probs, lengths, best_scores,
                   best_beams, exit, g_paths, g_lengths, penalty, flat_beams,
                   acc, live>>

\* one iteration of the loop in every run that is still in it
PairIterate ==
    /\ pc = "select"
    /\ \E best_idx \in RowChoices([b \in LiveRows |-> top_k(FlatScores(b), K)]) :
         LET new_lengths == [b \in AllRows |->
                 IF b \in LiveRows THEN SelLengths(b, best_idx[b]) ELSE lengths[b]]
             breaks == {r \in live : AllDone([b \in RunRows(r) |-> new_lengths[b]])}
         IN  /\ best_scores' = [b \in AllRows |->
                    IF b \in LiveRows THEN SelScores(b, best_idx[b]) ELSE best_scores[b]]
             /\ log_probs' = [b \in AllRows |->
                    IF b \in LiveRows THEN SelLogProbs(b, best_idx[b]) ELSE log_probs[b]]
             /\ best_beams' = [b \in AllRows |->
                    IF b \in LiveRows THEN SelBeams(b, best_idx[b]) ELSE best_beams[b]]
             /\ paths' = [b \in AllRows |->
                    IF b \in LiveRows THEN SelPaths(b, best_idx[b]) ELSE paths[b]]
             /\ acc' = [b \in AllRows |->
                    IF b \in LiveRows THEN SelAcc(b, best_idx[b]) ELSE acc[b]]
             /\ lengths' = new_lengths
             /\ calls' = Append(calls, "update")
             /\ live' = live \ breaks
             /\ IF live \subseteq breaks
                THEN /\ pc' = "return"
                     /\ exit' = "break"
                     /\ i' = i
                ELSE /\ i' = i + 1
                     /\ pc' = IF LoopContinues(i + 1) THEN "step" ELSE "final_step"
                     /\ exit' = exit
    /\ probs' = << >>
    /\ UNCHANGED <<bsz, K, V, mxlen, penalty, g_paths, g_lengths, flat_beams>>

PairCallFinalStep(Vals) ==
    /\ pc = "final_step"
    /\ probs' \in PairOutputs(Vals)
    /\ pc' = "finalize"
    /\ calls' = Append(calls, "step")
    /\ UNCHANGED <<bsz, K, V, mxlen, i, paths, log_probs, lengths, best_scores,
                   best_beams, exit, g_paths, g_lengths, penalty, flat_beams,
                   acc, live>>

\* the loop's else branch in every run that did not break
PairFinalize ==
    /\ pc = "finalize"
    /\ log_probs' = [b \in AllRows |-> [k \in Slots |->
           IF b \in LiveRows THEN FinalLogProbs(b, k) ELSE log_probs[b][k]]]
    /\ paths' = [b \in AllRows |-> [k \in Slots |->
           IF b \in LiveRows THEN Append(paths[b][k], EOS) ELSE paths[b][k]]]
    /\ lengths' = [b \in AllRows |-> [k \in Slots |->
           IF b \in LiveRows THEN FinalLengths(b, k) ELSE lengths[b][k]]]
    /\ best_scores' = [b \in AllRows |-> [k \in Slots |->
           IF b \in LiveRows
           THEN FinalScore(FinalLogProbs(b, k), FinalLengths(b, k))
           ELSE best_scores[b][k]]]
    /\ pc' = "return"
    /\ exit' = "forced"
    /\ probs' = << >>
    /\ UNCHANGED <<bsz, K, V, mxlen, i, penalty, best_beams, g_paths, g_lengths,
                   flat_beams, acc, live, calls>>

PairReturn ==
    /\ pc = "return"
    /\ paths' = [b \in AllRows |-> [k \in Slots |-> Tail(paths[b][k])]]
    /\ pc' = "done"
    /\ UNCHANGED <<bsz, K, V, mxlen, i, log_probs, lengths, best_scores, probs,
                   best_beams, exit, g_paths, g_lengths, penalty, flat_beams,
                   acc, live, calls>>

NextPair ==
    \/ PairCallStep(PairVals)
    \/ PairIterate
    \/ PairCallFinalStep(PairVals)
    \/ PairFinalize
    \/ PairReturn

SpecPair == InitPair /\ [][NextPair]_vars

----------------------------------------------------------------------------
(* __call__ runs its statements one after the other and every call of the   *)
(* oracle returns: until the result is returned the control moves on to the *)
(* next statement                                                           *)

\* the control moves on from a statement of __call__
Advance ==
    /\ pc \in {"step", "select", "final_step", "finalize", "return"}
    /\ pc' \in {"step", "select", "final_step", "finalize", "return", "done"}

NextLive ==
    \/ CallStep(PairVals)
    \/ Iterate
    \/ CallFinalStep(PairVals)
    \/ Finalize
    \/ Return

SpecLive == Init /\ [][NextLive]_vars /\ WF_pc(Advance)

----------------------------------------------------------------------------
(* Scenario A: B = 1, K = 2, V = 4, tokens PAD = 0, START = 1, END = 2,     *)
(* A = 3; the first distribution of the oracle has all its mass on A        *)

ScenarioA == [B |-> 1, K |-> 2, V |-> 4, A |-> 3,
              dist |-> [v \in 0 .. 3 |-> IF v = 3 THEN 0 ELSE IF v = 2 THEN -5 ELSE NegInf]]

InitA ==
    /\ bsz = ScenarioA.B /\ K = ScenarioA.K /\ V = ScenarioA.V
    /\ mxlen \in 1 .. MaxLen
    /\ penalty = "none"
    /\ live = {0}
    /\ InitRun(Rows)

\* the oracle of the scenario: the given distribution for the start
\* hypothesis, any finite distribution afterwards
OracleA(at) ==
    /\ pc = at
    /\ IF i = 0
       THEN probs' = [b \in Rows |-> [k \in Slots |-> ScenarioA.dist]]
       ELSE probs' \in StepOutputs({0, 0 - MaxCost})
    /\ pc' = IF at = "step" THEN "select" ELSE "finalize"
    /\ calls' = Append(calls, "step")
    /\ UNCHANGED <<bsz, K, V, mxlen, i, paths, log_probs, lengths, best_scores,
                   best_beams, exit, g_paths, g_lengths, penalty, flat_beams,
                   acc, live>>

NextA ==
    \/ OracleA("step")
    \/ Iterate
    \/ OracleA("final_step")
    \/ Finalize
    \/ Return

SpecA == InitA /\ [][NextA]_vars

----------------------------------------------------------------------------
(* Properties *)

Beams == Rows \X Slots

AllFinished == \A b \in Rows, k \in Slots : lengths[b][k] # 0

\* the first selection has been made and nothing else since
StepZeroDone ==
    \/ pc \in {"step", "final_step"} /\ i = 1
    \/ pc = "return" /\ exit = "break" /\ i = 0

\* C1: whenever the loop is left by its break, every beam of every batch
\* row has a length different from 0
C1_BreakMeansAllFinished == exit = "break" => AllFinished

\* C2: if every beam of every batch row is finished after the length update
\* of a step, the loop exits at that step: neither another call of the
\* oracle's step nor the forced finalization is pending
C2_AllFinishedExits == pc \in {"step", "final_step"} => ~AllFinished

\* C3: every returned beam is complete: its length is not 0 and its returned
\* sequence holds END at index length - 1 (counted from 0)
C3_ReturnedComplete ==
    pc = "done" =>
        \A b \in Rows, k \in Slots :
            /\ lengths[b][k] # 0
            /\ lengths[b][k] <= Len(paths[b][k])
            /\ paths[b][k][lengths[b][k]] = EOS

\* C4: a non-zero length never changes: the beam selected from an origin
\* with a non-zero length keeps that length, whatever token is appended, in
\* the loop and in the forced finalization; no other step writes lengths
C4_FrozenLength ==
    [][IF pc \in {"select", "finalize"}
       THEN \A b \in Rows, k \in Slots :
                LET o == best_beams'[b][k]
                IN  lengths[b][o] # 0 => lengths'[b][k] = lengths[b][o]
       ELSE lengths' = lengths]_vars

\* a beam that finished before mxlen went through the forced finalization
C4_Witness ==
    /\ exit = "forced"
    /\ \E b \in Rows, k \in Slots : lengths[b][k] # 0 /\ lengths[b][k] < mxlen

\* beam (b, k) is a beam of its row after the step: same hypothesis, END
\* appended, length and log_prob unchanged
Retained(b, k) ==
    \E k2 \in Slots :
        /\ paths'[b][k2] = Append(paths[b][k], EOS)
        /\ lengths'[b][k2] = lengths[b][k]
        /\ log_probs'[b][k2] = log_probs[b][k]

\* the K candidates selected in row b all score at least x
Outranked(b, x) == \A k2 \in Slots : ~FLess(best_scores'[b][k2], x)

\* C5 as stated: a finished hypothesis is still one of the K beams of its
\* row after every later step
C5_FinishedAlwaysRetained ==
    [][pc = "select" =>
          \A b \in Rows, k \in Slots : lengths[b][k] # 0 => Retained(b, k)]_vars

\* C5 amended: for finite oracle log-probabilities, a finished hypothesis
\* stays in the candidate pool of its row and after a step it is still one
\* of the row's K beams (END appended, length and log_prob unchanged) unless
\* the K candidates selected in the row all score at least as high as it
C5_FinishedRetainedUnlessOutranked ==
    [][pc = "select" =>
          \A b \in Rows, k \in Slots :
              lengths[b][k] # 0 =>
                  \/ Retained(b, k)
                  \/ Outranked(b, FDiv(log_probs[b][k],
                                       length_penalty(lengths[b][k])))]_vars

\* a beam that finished in an earlier step is still a beam of a row of
\* several beams
C5_Witness ==
    /\ pc \in {"step", "final_step"}
    /\ K >= 2
    /\ \E b \in Rows, k \in Slots : lengths[b][k] # 0 /\ lengths[b][k] < i

\* C6: at a step t >= 1 the END candidate of a beam that was finished before
\* the step has the beam's prior log_prob, whatever the oracle returned
C6_FinishedEndCandidate ==
    (pc = "select" /\ i >= 1) =>
        \A b \in Rows, k \in Slots :
            lengths[b][k] # 0 => Combined(b, k, EOS) = log_probs[b][k]

\* C7: with finite oracle log-probabilities, in every path every token after
\* the first END token is END
C7_NoContentAfterEnd ==
    \A b \in Rows, k \in Slots :
        \A p, q \in 1 .. Len(paths[b][k]) :
            (p < q /\ paths[b][k][p] = EOS) => paths[b][k][q] = EOS

\* a finished beam was extended by a step of the loop
C7_Witness ==
    /\ pc \in {"step", "final_step"}
    /\ \E b \in Rows, k \in Slots :
           /\ Len(paths[b][k]) >= 3
           /\ paths[b][k][2] = EOS
           /\ paths[b][k][3] = EOS

\* C8: the K tokens selected for a row at the first step are pairwise
\* distinct
C8_StepZeroDistinct ==
    StepZeroDone =>
        \A b \in Rows : \A k1, k2 \in Slots :
            k1 # k2 => paths[b][k1][2] # paths[b][k2][2]

\* the first selection of a row of several beams
C8_Witness == StepZeroDone /\ K >= 2

\* C9 as stated: in scenario A both beams select token A at the first step
\* and the search does not fail
C9_BothSelectA ==
    /\ pc # "error"
    /\ StepZeroDone => \A k \in Slots : paths[0][k][2] = ScenarioA.A

\* C9 amended: in scenario A the search does not fail and the two beams
\* select distinct tokens at the first step: beam 0 selects A, beam 1 selects
\* END (the runner-up of the distribution) and is finished with log_prob -5
C9_ScenarioASelectsAThenEnd ==
    /\ pc # "error"
    /\ StepZeroDone =>
           /\ paths[0][0][2] = ScenarioA.A
           /\ paths[0][1][2] = EOS
           /\ lengths[0][0] = 0 /\ lengths[0][1] = 1
           /\ log_probs[0][0] = 0 /\ log_probs[0][1] = -5

\* the first selection of scenario A
C9_Witness == StepZeroDone /\ V = ScenarioA.V /\ best_scores[0][1] = -5

\* C10: for K = 1 every row's returned sequence is the greedy sequence: the
\* arg-max token of every step up to the first END or the maximum length
C10_GreedyEquivalence ==
    (pc = "done" /\ K = 1) =>
        \A b \in Rows :
            /\ g_lengths[b] # 0
            /\ lengths[b][0] = g_lengths[b]
            /\ SubSeq(paths[b][0], 1, lengths[b][0]) = g_paths[b]

\* C11: every length is at most mxlen; a length set inside the loop is at
\* most mxlen - 1, so that only the forced finalization assigns mxlen
C11_LengthBound ==
    \A bk \in Beams :
        /\ lengths[bk[1]][bk[2]] <= mxlen
        /\ exit # "forced" => lengths[bk[1]][bk[2]] <= mxlen - 1

\* returned by the forced finalization with one beam finished in the last
\* iteration of the loop and one finished by the finalization
C11_Witness ==
    /\ pc = "done"
    /\ exit = "forced"
    /\ mxlen >= 2
    /\ \E bk \in Beams : lengths[bk[1]][bk[2]] = mxlen - 1
    /\ \E bk \in Beams : lengths[bk[1]][bk[2]] = mxlen

\* C12: after every step the running log_prob of every beam is the sum of
\* the oracle's log-probs of the tokens selected along its path, the steps
\* after the beam finished adding 0, whatever the length penalty
C12_LogProbIsSum ==
    \A bk \in Beams : log_probs[bk[1]][bk[2]] = acc[bk[1]][bk[2]]

\* the step that runs the loop's else branch
ForcedFinalization == pc = "finalize" /\ pc' = "return"

\* C13: the forced finalization runs after all mxlen - 1 iterations; it
\* appends END to every beam that is not finished, sets its length to mxlen
\* and adds to its log_prob the END log-prob of the final self.step
C13_ForcedFinalization ==
    [][ForcedFinalization =>
          /\ i = mxlen - 1
          /\ exit' = "forced"
          /\ \A bk \in Beams :
                lengths[bk[1]][bk[2]] = 0 =>
                    /\ paths'[bk[1]][bk[2]] = Append(paths[bk[1]][bk[2]], EOS)
                    /\ lengths'[bk[1]][bk[2]] = mxlen
                    /\ log_probs'[bk[1]][bk[2]] =
                          FAdd(log_probs[bk[1]][bk[2]], probs[bk[1]][bk[2]][EOS])]_vars

\* a beam that had content as its last token was closed by the forced
\* finalization with an END log-prob other than 0
C13_Witness ==
    /\ pc = "return"
    /\ exit = "forced"
    /\ mxlen >= 2
    /\ \E bk \in Beams :
          /\ lengths[bk[1]][bk[2]] = mxlen
          /\ paths[bk[1]][bk[2]][mxlen] # EOS
          /\ Last(paths[bk[1]][bk[2]]) = EOS
          /\ acc[bk[1]][bk[2]] < 0
          /\ log_probs[bk[1]][bk[2]] = acc[bk[1]][bk[2]]

\* C14: the forced finalization leaves the log_prob and the length of every
\* beam that is already finished as they were
C14_NoDoubleCount ==
    [][ForcedFinalization =>
          \A bk \in Beams :
              lengths[bk[1]][bk[2]] # 0 =>
                  /\ lengths'[bk[1]][bk[2]] = lengths[bk[1]][bk[2]]
                  /\ log_probs'[bk[1]][bk[2]] = log_probs[bk[1]][bk[2]]]_vars

\* C15: after the forced finalization the returned score of every beam is
\* its final log_prob divided by the length penalty of its final length
C15_ForcedScore ==
    (pc \in {"return", "done"} /\ exit = "forced") =>
        \A bk \in Beams :
            best_scores[bk[1]][bk[2]] =
                FDiv(log_probs[bk[1]][bk[2]], length_penalty(lengths[bk[1]][bk[2]]))

\* returned by the forced finalization under a penalty that changes the
\* score of a beam and with beams of different lengths
C15_Witness ==
    /\ pc = "done"
    /\ exit = "forced"
    /\ length_penalty(mxlen) # 1
    /\ \E bk \in Beams :
          /\ lengths[bk[1]][bk[2]] = mxlen
          /\ log_probs[bk[1]][bk[2]] < 0
          /\ best_scores[bk[1]][bk[2]] # ToScore(log_probs[bk[1]][bk[2]])
    /\ \E bk \in Beams : lengths[bk[1]][bk[2]] < mxlen

\* C16: at every step and in the output every batch row holds exactly K
\* beams: K paths, K lengths, K log_probs and K scores
C16_BeamCount ==
    /\ DOMAIN paths = Rows /\ DOMAIN lengths = Rows
    /\ DOMAIN log_probs = Rows /\ DOMAIN best_scores = Rows
    /\ \A b \in Rows :
          /\ DOMAIN paths[b] = Slots
          /\ DOMAIN lengths[b] = Slots
          /\ DOMAIN log_probs[b] = Slots
          /\ DOMAIN best_scores[b] = Slots

\* a returned result of K = 2 beams, selected twice from 2 * V candidates
C16_Witness ==
    /\ pc = "done"
    /\ K = 2
    /\ i >= 2
    /\ \A b \in Rows : Cardinality(DOMAIN paths[b]) = K

\* C17: with K < 1 or mxlen < 1 the search stops with an error before the
\* oracle's step is called, and returns no result
C17_InvalidConfigRejected ==
    (K < 1 \/ mxlen < 1) => pc \notin {"select", "finalize", "return", "done"}

\* the candidates of row b are about to be ranked
Selecting == pc = "select" /\ ~(i = 0 /\ K > V)

\* the selection sel of the scores flat takes at every position the highest
\* of the remaining scores and, among equal scores, the lowest flat index
LowestIndexFirst(flat, sel) ==
    \A n \in 1 .. Len(sel) :
        \A g \in DOMAIN flat \ {sel[m] : m \in 1 .. n} :
            /\ ~FLess(flat[sel[n]], flat[g])
            /\ flat[g] = flat[sel[n]] => sel[n] < g

Prefix(p) == SubSeq(p, 1, Len(p) - 1)

\* the step that selects, gathers and extends the beams
Selected == pc = "select" /\ pc' \in {"step", "final_step", "return"}

\* C20: two new slots of a row that were selected from the same origin beam
\* carry the origin's path followed by two different tokens, and
\* self.update is given the same origin index for both
C20_GatherCorrect ==
    [][Selected =>
          \A b \in Rows : \A k1, k2 \in Slots :
              (k1 # k2 /\ best_beams'[b][k1] = best_beams'[b][k2]) =>
                  /\ Prefix(paths'[b][k1]) = paths[b][best_beams'[b][k1]]
                  /\ Prefix(paths'[b][k1]) = Prefix(paths'[b][k2])
                  /\ Last(paths'[b][k1]) # Last(paths'[b][k2])
                  /\ flat_beams'[b * K + k1 + 1] = flat_beams'[b * K + k2 + 1]
                  /\ flat_beams'[b * K + k1 + 1] = b * K + best_beams'[b][k1]]_vars

\* after the first step both slots of the row were selected from slot 1
C20_Witness ==
    /\ K = 2
    /\ i >= 2
    /\ pc = "final_step"
    /\ best_beams[0][0] = 1 /\ best_beams[0][1] = 1
    /\ flat_beams = <<1, 1>>
    /\ Prefix(paths[0][0]) = Prefix(paths[0][1])
    /\ Last(paths[0][0]) # Last(paths[0][1])

\* the first row of the batch of run r
Observed(r) == r * bsz

\* the returned tokens of a beam up to its length
Sequence(b, k) ==
    SubSeq(paths[b][k], 1, IF lengths[b][k] > 0 THEN lengths[b][k] ELSE 0)

\* while both runs are in the loop their first rows agree
PairStepwise ==
    (live = Runs /\ pc \in {"step", "select", "final_step", "finalize"}) =>
        /\ paths[Observed(0)] = paths[Observed(1)]
        /\ lengths[Observed(0)] = lengths[Observed(1)]
        /\ log_probs[Observed(0)] = log_probs[Observed(1)]

\* both runs return the same for their first rows
PairReturned ==
    pc = "done" =>
        /\ lengths[Observed(0)] = lengths[Observed(1)]
        /\ best_scores[Observed(0)] = best_scores[Observed(1)]
        /\ \A k \in Slots : Sequence(Observed(0), k) = Sequence(Observed(1), k)

\* C19: two runs that differ only in what the oracle returns for the other
\* rows agree on a row after every step that both execute, and return the
\* same sequences, lengths and scores for it
C19_RowsIndependent == PairStepwise /\ PairReturned

\* the flat index of the candidate that slot k of row b holds after a step,
\* put together from its origin beam and its token
FlatOf(b, k) == best_beams'[b][k] * V + Last(paths'[b][k])

C22_GatherInsideRow ==
    [][Selected =>
          \A b \in Rows : \A k \in Slots :
              LET origin == best_beams'[b][k]
              IN  /\ origin \in 0 .. K - 1
                  /\ flat_beams'[b * K + k + 1] = b * K + origin
                  /\ Prefix(paths'[b][k]) = paths[b][origin]
                  /\ Len(paths'[b][k]) = Len(paths[b][origin]) + 1
                  /\ lengths'[b][k] =
                        IF lengths[b][origin] = 0 /\ Last(paths'[b][k]) = EOS
                        THEN i + 1 ELSE lengths[b][origin]]_vars

\* two rows whose beams had different paths were both extended in a step
\* t >= 1, and the beam of the second row finished in it
C22_Witness ==
    /\ bsz = 2
    /\ i >= 1
    /\ pc = "return"
    /\ exit = "break"
    /\ Prefix(paths[0][0]) # Prefix(paths[1][0])
    /\ lengths[0][0] = 0 /\ lengths[1][0] = i + 1
    /\ flat_beams = <<0, 1>>

\* how often a method of the oracle was called
Count(name) == Cardinality({n \in 1 .. Len(calls) : calls[n] = name})

\* C23: init is called once, before any step; every iteration calls step
\* once and then update once, with the flattened origins b * K + origin of
\* the iteration's gather; the forced finalization calls step and no update
C23_CallProtocol ==
    /\ calls[1] = "init" /\ Count("init") = 1
    /\ \A n \in 2 .. Len(calls) :
          /\ calls[n] = "update" => calls[n - 1] = "step"
          /\ (calls[n] = "step" /\ n > 2) => calls[n - 1] = "update"
    /\ pc \in {"step", "final_step"} => Count("step") = i /\ Count("update") = i
    /\ pc \in {"select", "finalize"} => Count("step") = i + 1 /\ Count("update") = i
    /\ exit = "break" => Count("step") = i + 1 /\ Count("update") = i + 1
    /\ exit = "forced" =>
          Count("step") = i + 1 /\ Count("update") = i /\ Last(calls) = "step"
    /\ (Count("update") >= 1 /\ exit # "forced") =>
          \A bk \in Beams :
              flat_beams[bk[1] * K + bk[2] + 1] = bk[1] * K + best_beams[bk[1]][bk[2]]

\* a batch of two rows returned by the forced finalization after two
\* iterations
C23_Witness ==
    /\ pc = "done"
    /\ exit = "forced"
    /\ bsz = 2
    /\ calls = <<"init", "step", "update", "step", "update", "step">>
    /\ flat_beams = <<0, 1>>

\* C24: when the oracle's step is called at step t every path, finished or
\* not, has t + 1 tokens, the first of them START; after step t every path
\* has t + 2 tokens
C24_PathLength ==
    \A bk \in Beams :
        /\ pc \in {"step", "select", "final_step", "finalize"} =>
              /\ Len(paths[bk[1]][bk[2]]) = i + 1
              /\ paths[bk[1]][bk[2]][1] = GO
        /\ pc = "return" =>
              /\ Len(paths[bk[1]][bk[2]]) = i + 2
              /\ paths[bk[1]][bk[2]][1] = GO

\* the oracle is called at step 2 with a finished and an unfinished beam
C24_Witness ==
    /\ pc = "finalize"
    /\ i = 2
    /\ \E bk \in Beams : lengths[bk[1]][bk[2]] = 1 /\ Len(paths[bk[1]][bk[2]]) = 3
    /\ \E bk \in Beams : lengths[bk[1]][bk[2]] = 0 /\ Len(paths[bk[1]][bk[2]]) = 3

\* the tokens of a path after the START token (the returned path has none)
Content(p) == IF pc = "done" THEN p ELSE Tail(p)

\* the positions of the END tokens of a path, the START token not counted
EndPositions(p) == {n \in 1 .. Len(Content(p)) : Content(p)[n] = EOS}

\* C25: after the length update of a step the length of a beam is 0 if and
\* only if its path has no END token, and a length other than 0 is the
\* position of the first END token of the path, the START token not counted
C25_LengthIsFirstEnd ==
    \A bk \in Beams :
        LET ends == EndPositions(paths[bk[1]][bk[2]])
            len == lengths[bk[1]][bk[2]]
        IN  /\ len = 0 <=> ends = {}
            /\ len # 0 => len \in ends /\ \A n \in ends : len <= n

\* after step 1 one beam has its first END at position 1 and a second END
\* after it, another has its first END at position 2
C25_Witness ==
    /\ K = 2
    /\ pc = "return"
    /\ i = 1
    /\ \E bk \in Beams : /\ lengths[bk[1]][bk[2]] = 1
                          /\ EndPositions(paths[bk[1]][bk[2]]) = {1, 2}
    /\ \E bk \in Beams : /\ lengths[bk[1]][bk[2]] = 2
                          /\ EndPositions(paths[bk[1]][bk[2]]) = {2}

C27_EarlyExitScore ==
    (pc \in {"return", "done"} /\ exit = "break") =>
        \A bk \in Beams :
            best_scores[bk[1]][bk[2]] =
                FDiv(log_probs[bk[1]][bk[2]], length_penalty(lengths[bk[1]][bk[2]]))

\* the K paths of every row are pairwise distinct
PathsDistinct ==
    \A b \in Rows : \A k1 \in Slots, k2 \in Slots :
        k1 # k2 => paths[b][k1] # paths[b][k2]

\* C28 as stated: for every mxlen >= 1 the K sequences returned for a row
\* are pairwise distinct
C28_ReturnedDistinct == pc = "done" => PathsDistinct

\* C28: once a loop step has run the K paths of a row are pairwise
\* distinct, up to and in the returned output; a search with mxlen >= 2
\* runs a loop step before it returns, and with mxlen = 1 no loop step runs
\* and every returned sequence is the single token END
C28_DistinctAfterLoopStep ==
    /\ Count("update") >= 1 => PathsDistinct
    /\ (pc \in {"return", "done"} /\ mxlen >= 2) => Count("update") >= 1
    /\ (pc = "done" /\ mxlen = 1) =>
            \A bk \in Beams : paths[bk[1]][bk[2]] = <<EOS>>

C28_Witness ==
    /\ pc = "done"
    /\ exit = "forced"
    /\ K = 2
    /\ mxlen = 3
    /\ paths[0][0][1] = paths[0][1][1]
    /\ paths[0][0][2] # paths[0][1][2]

\* C29: with finite oracle log-probabilities, at a step t >= 1 a beam that
\* was finished before the step is the origin of at most one of the K beams
\* selected in its row
C29_FinishedNotDuplicated ==
    [][(Selected /\ i >= 1) =>
          \A b \in Rows, o \in Slots :
              lengths[b][o] # 0 =>
                  Cardinality({k \in Slots : best_beams'[b][k] = o}) <= 1]_vars

\* a beam that finished at step 0 was the origin of one beam at step 1, next
\* to a beam that is not finished
C29_Witness ==
    /\ pc = "final_step"
    /\ i = 2
    /\ K = 2
    /\ \E k \in Slots :
          /\ lengths[0][k] = 1
          /\ lengths[0][1 - k] = 0
          /\ best_beams[0][k] # best_beams[0][1 - k]

====
